---- MODULE Spec2Model ----
(***************************************************************************)
(* A model of two parts of the toolkit:                                    *)
(*   - CodeGenerator (chat/officeCommon/skills/codeGenerator.ts): invoke,  *)
(*     userInputBreakdownTaskAsync and generateCode;                       *)
(*   - AzureFunctionResource (component/resource/azureFunction.ts): the    *)
(*     configure and deploy actions with their plan/execute callbacks.     *)
(*                                                                         *)
(* Text returned by the remote model is a sequence of tokens.  A token is  *)
(* a piece of text that the code's regular expressions and JSON.parse      *)
(* treat as a unit: a fence (three backticks, written FENCE, possibly      *)
(* followed by a language word), a JSON punctuation character, a double    *)
(* quote, a blank, a decimal digit, a JSON literal word, or another word.  *)
(***************************************************************************)
EXTENDS Integers, Sequences, FiniteSets, TLC

\* ------------------------------------------------------------------ tokens

FJ == "FENCEjson"
FT == "FENCEtypescript"
F3 == "FENCE"
QT == "\""
WS == " "

Digits == {"0", "1", "2", "3", "4", "5", "6", "7", "8", "9"}

\* Every token that begins with three backticks ends a lazy [\s\S]*? group.
IsFence(tok) == tok \in {FJ, FT, F3}

DigitVal(d) ==
  CASE d = "0" -> 0 [] d = "1" -> 1 [] d = "2" -> 2 [] d = "3" -> 3
    [] d = "4" -> 4 [] d = "5" -> 5 [] d = "6" -> 6 [] d = "7" -> 7
    [] d = "8" -> 8 [] OTHER -> 9

SetMin(S) == CHOOSE x \in S : \A y \in S : x <= y

\* ------------------------------------------------------------ JS values

\* A value is [t |-> its type] and, but for undefined and null, v |-> its
\* content: a boolean, a number, the tokens of a string, the elements of an
\* array, or the members of an object in source order, each
\* [k |-> the key's tokens, v |-> the value].
Undefined == [t |-> "undefined"]
Null      == [t |-> "null"]
Bool(b)   == [t |-> "bool", v |-> b]
Num(n)    == [t |-> "num", v |-> n]
Str(s)    == [t |-> "str", v |-> s]
Arr(a)    == [t |-> "arr", v |-> a]
Obj(o)    == [t |-> "obj", v |-> o]

\* JavaScript's ToBoolean.
Truthy(v) ==
  CASE v.t = "bool" -> v.v
    [] v.t = "num"  -> v.v # 0
    [] v.t = "str"  -> v.v # <<>>
    [] v.t \in {"arr", "obj"} -> TRUE
    [] OTHER -> FALSE

\* Reading a property of undefined or null raises a TypeError.
PropThrows(v) == v.t \in {"undefined", "null"}

HasKey(v, key) == v.t = "obj" /\ \E i \in 1..Len(v.v) : v.v[i].k = key

\* v[key] for a value that is neither undefined nor null: the last member of
\* that name of an object (JSON.parse keeps the last duplicate), undefined for
\* a name the value does not carry.
GetProp(v, key) ==
  IF HasKey(v, key)
    THEN v.v[CHOOSE i \in 1..Len(v.v) :
                /\ v.v[i].k = key
                /\ \A j \in (i+1)..Len(v.v) : v.v[j].k # key].v
    ELSE Undefined

\* ------------------------------------------------------------ String.trim

RECURSIVE TrimLeft(_)
TrimLeft(s) == IF s # <<>> /\ Head(s) = WS THEN TrimLeft(Tail(s)) ELSE s

RECURSIVE TrimRight(_)
TrimRight(s) ==
  IF s # <<>> /\ s[Len(s)] = WS THEN TrimRight(SubSeq(s, 1, Len(s) - 1)) ELSE s

Trim(s) == TrimRight(TrimLeft(s))

\* ------------------------------------------------------------- JSON.parse

ParseFail == [ok |-> FALSE, v |-> Undefined, i |-> 0]
ParseOk(v, i) == [ok |-> TRUE, v |-> v, i |-> i]

RECURSIVE SkipWs(_, _)
SkipWs(s, i) == IF i <= Len(s) /\ s[i] = WS THEN SkipWs(s, i + 1) ELSE i

\* The end of the run of digits that starts at i (the index after it).
RECURSIVE DigitsEnd(_, _)
DigitsEnd(s, i) == IF i <= Len(s) /\ s[i] \in Digits THEN DigitsEnd(s, i + 1) ELSE i

RECURSIVE Decimal(_, _, _)
Decimal(s, i, j) == IF j < i THEN 0 ELSE 10 * Decimal(s, i, j - 1) + DigitVal(s[j])

\* A number: a run of digits with no leading zero (fractions, exponents and
\* signs are not among the tokens).
ParseNumber(s, i) ==
  LET e == DigitsEnd(s, i) IN
  IF s[i] = "0" /\ e > i + 1 THEN ParseFail
  ELSE ParseOk(Num(Decimal(s, i, e - 1)), e)

\* A string: from the quote at i to the next quote.
ParseString(s, i) ==
  LET closing == {j \in (i+1)..Len(s) : s[j] = QT} IN
  IF closing = {} THEN ParseFail
  ELSE LET j == SetMin(closing) IN ParseOk(Str(SubSeq(s, i + 1, j - 1)), j + 1)

RECURSIVE ParseValue(_, _)
RECURSIVE ParseElements(_, _, _)
RECURSIVE ParseMembers(_, _, _)

\* The elements of an array, from index i (after "[" or after a comma); "]"
\* may close the array at once only while no element has been read.
ParseElements(s, i, acc) ==
  LET p == SkipWs(s, i) IN
  IF p > Len(s) THEN ParseFail
  ELSE IF s[p] = "]" /\ acc = <<>> THEN ParseOk(Arr(acc), p + 1)
  ELSE LET r == ParseValue(s, p) IN
       IF ~r.ok THEN ParseFail
       ELSE LET q == SkipWs(s, r.i) IN
            IF q > Len(s) THEN ParseFail
            ELSE IF s[q] = "]" THEN ParseOk(Arr(Append(acc, r.v)), q + 1)
            ELSE IF s[q] = "," /\ SkipWs(s, q + 1) <= Len(s) /\ s[SkipWs(s, q + 1)] # "]"
                 THEN ParseElements(s, q + 1, Append(acc, r.v))
            ELSE ParseFail

\* The members of an object, from index i (after "{" or after a comma).
ParseMembers(s, i, acc) ==
  LET p == SkipWs(s, i) IN
  IF p > Len(s) THEN ParseFail
  ELSE IF s[p] = "}" /\ acc = <<>> THEN ParseOk(Obj(acc), p + 1)
  ELSE IF s[p] # QT THEN ParseFail
  ELSE LET k == ParseString(s, p) IN
       IF ~k.ok THEN ParseFail
       ELSE LET c == SkipWs(s, k.i) IN
            IF c > Len(s) \/ s[c] # ":" THEN ParseFail
            ELSE LET r == ParseValue(s, SkipWs(s, c + 1)) IN
                 IF ~r.ok THEN ParseFail
                 ELSE LET q == SkipWs(s, r.i)
                          m == Append(acc, [k |-> k.v.v, v |-> r.v])
                      IN IF q > Len(s) THEN ParseFail
                         ELSE IF s[q] = "}" THEN ParseOk(Obj(m), q + 1)
                         ELSE IF s[q] = "," THEN
                              (IF SkipWs(s, q + 1) <= Len(s) /\ s[SkipWs(s, q + 1)] = QT
                                 THEN ParseMembers(s, q + 1, m) ELSE ParseFail)
                         ELSE ParseFail

\* One JSON value starting exactly at index i.
ParseValue(s, i) ==
  IF i > Len(s) THEN ParseFail
  ELSE CASE s[i] = "{"     -> ParseMembers(s, i + 1, <<>>)
         [] s[i] = "["     -> ParseElements(s, i + 1, <<>>)
         [] s[i] = QT      -> ParseString(s, i)
         [] s[i] \in Digits -> ParseNumber(s, i)
         [] s[i] = "true"  -> ParseOk(Bool(TRUE), i + 1)
         [] s[i] = "false" -> ParseOk(Bool(FALSE), i + 1)
         [] s[i] = "null"  -> ParseOk(Null, i + 1)
         [] OTHER          -> ParseFail

\* JSON.parse(text): [ok |-> FALSE] stands for the SyntaxError it throws.
JSONparse(s) ==
  LET r == ParseValue(s, SkipWs(s, 1)) IN
  IF r.ok /\ SkipWs(s, r.i) = Len(s) + 1 THEN [ok |-> TRUE, v |-> r.v]
  ELSE [ok |-> FALSE, v |-> Undefined]

\* ---------------------------------------------------------- String.match

\* The same match with a greedy group: up to the last fence.
MatchFencedGreedy(open, s) ==
  LET starts == {i \in 1..Len(s) : s[i] = open /\ \E j \in (i+1)..Len(s) : IsFence(s[j])} IN
  IF starts = {} THEN [found |-> FALSE, group |-> <<>>]
  ELSE LET i == SetMin(starts)
           j == CHOOSE j \in (i+1)..Len(s) :
                  IsFence(s[j]) /\ \A k \in (j+1)..Len(s) : ~IsFence(s[k])
       IN [found |-> TRUE, group |-> SubSeq(s, i + 1, j - 1)]

\* text.match(/<open>([\s\S]*?)FENCE/): the leftmost <open> that is followed by
\* a fence, and the lazy group up to the nearest such fence.
MatchFenced(open, s) ==
  LET starts == {i \in 1..Len(s) : s[i] = open /\ \E j \in (i+1)..Len(s) : IsFence(s[j])} IN
  IF starts = {} THEN [found |-> FALSE, group |-> <<>>]
  ELSE LET i == SetMin(starts)
           j == SetMin({j \in (i+1)..Len(s) : IsFence(s[j])})
       IN [found |-> TRUE, group |-> SubSeq(s, i + 1, j - 1)]

\* ------------------------------------------- userInputBreakdownTaskAsync

\* What a call returned: threw is TRUE when it raised instead of returning.
Returned(v) == [threw |-> FALSE, v |-> v]
Raised == [threw |-> TRUE, v |-> Undefined]

\* The same without the catch: the SyntaxError and the TypeError escape.
ParseBreakdownResponseNoCatch(copilotResponse) ==
  LET codeSnippetRet == MatchFenced(FJ, copilotResponse)
      parsed == IF ~codeSnippetRet.found
                  THEN JSONparse(Trim(copilotResponse))
                  ELSE JSONparse(Trim(codeSnippetRet.group))
  IN IF ~parsed.ok \/ PropThrows(parsed.v) THEN Raised ELSE Returned(parsed.v)

\* The same with the two parses in the other order: the whole text first, the
\* fenced json block only when that fails.
ParseBreakdownResponseDirectFirst(copilotResponse) ==
  LET direct == JSONparse(Trim(copilotResponse))
      codeSnippetRet == MatchFenced(FJ, copilotResponse)
      parsed == IF direct.ok THEN direct
                ELSE IF codeSnippetRet.found THEN JSONparse(Trim(codeSnippetRet.group))
                ELSE direct
  IN IF ~parsed.ok \/ PropThrows(parsed.v) THEN Returned(Null) ELSE Returned(parsed.v)

\* The try block of userInputBreakdownTaskAsync applied to the response text:
\* the fenced json block is looked for first; the whole text is parsed only
\* when there is none.  The SyntaxError of JSON.parse, and the TypeError of
\* reading copilotRet.complexity when the text parsed to null, are both
\* caught and turned into null.
ParseBreakdownResponse(copilotResponse) ==
  LET codeSnippetRet == MatchFenced(FJ, copilotResponse)
      parsed == IF ~codeSnippetRet.found
                  THEN JSONparse(Trim(copilotResponse))
                  ELSE JSONparse(Trim(codeSnippetRet.group))
  IN IF ~parsed.ok THEN Returned(Null)
     ELSE IF PropThrows(parsed.v) THEN Returned(Null)
     ELSE Returned(parsed.v)

\* ------------------------------------------------------- response texts

\* The bounds of the model.
MaxTextLen == 4
MaxTasks == 2
MaxInvokes == 2

SeqsUpTo(A, n) == UNION {[1..k -> A] : k \in 0..n}

\* Every text of at most MaxTextLen tokens over these tokens.
TextAlphabet == {FJ, F3, QT, "1", WS, "x", "{", "}"}
ShortTexts == SeqsUpTo(TextAlphabet, MaxTextLen)

\* JSON source text.
StrText(w) == <<QT, w, QT>>
Member(k, valueText) == StrText(k) \o <<":", WS>> \o valueText

RECURSIVE JoinComma(_)
JoinComma(parts) ==
  IF parts = <<>> THEN <<>>
  ELSE IF Len(parts) = 1 THEN parts[1]
  ELSE parts[1] \o <<",", WS>> \o JoinComma(Tail(parts))

ObjText(members) == <<"{">> \o JoinComma(members) \o <<"}">>
ArrText(elements) == <<"[">> \o JoinComma(elements) \o <<"]">>

TaskWord(i) == IF i = 1 THEN "taskA" ELSE IF i = 2 THEN "taskB" ELSE "taskC"
TasksText(n) == ArrText([i \in 1..n |-> StrText(TaskWord(i))])

NumText(n) ==
  CASE n = 0 -> <<"0">> [] n = 49 -> <<"4", "9">> [] n = 50 -> <<"5", "0">>
    [] n = 51 -> <<"5", "1">> [] OTHER -> <<"1", "0", "0">>

\* A breakdown answer as the system prompt asks for it; a field given as
\* "absent" (for data and complexity: -1) is left out.
BreakdownText(host, sc, nTasks, cx, cf) ==
  ObjText(
    (IF host = "absent" THEN <<>> ELSE <<Member("host", StrText(host))>>) \o
    (IF sc = "absent" THEN <<>> ELSE <<Member("shouldContinue", <<sc>>)>>) \o
    (IF nTasks < 0 THEN <<>> ELSE <<Member("data", TasksText(nTasks))>>) \o
    (IF cx < 0 THEN <<>> ELSE <<Member("complexity", NumText(cx))>>) \o
    (IF cf = "absent" THEN <<>> ELSE <<Member("customFunctions", <<cf>>)>>))

Fenced(open, body) == <<open, WS>> \o body \o <<WS, F3>>
Prose == <<"Sure", WS>>

\* Answers with all five fields: each host with and without custom functions,
\* each complexity around the threshold, each number of tasks, a rejection.
FullBreakdowns ==
  {BreakdownText(h, "true", 1, 51, cf) : h \in {"Excel", "Word"}, cf \in {"true", "false"}}
  \cup {BreakdownText("Excel", "true", 1, cx, "false") : cx \in {49, 50}}
  \cup {BreakdownText("Word", "true", n, 100, "false") : n \in 0..MaxTasks}
  \cup {BreakdownText("Excel", "false", 1, 0, "false")}

\* Answers that are valid JSON and lack a field, or are no object at all.
PartialBreakdowns ==
  { BreakdownText("absent", "true", 1, 51, "false"),
    BreakdownText("Excel", "absent", 1, 51, "false"),
    BreakdownText("Excel", "true", -1, 51, "false"),
    BreakdownText("Excel", "true", 1, -1, "false"),
    BreakdownText("Excel", "true", 1, 51, "absent"),
    ObjText(<<Member("shouldContinue", <<"true">>), Member("data", <<"0">>)>>),
    <<"{", "}">>, <<"null">>, <<"0">>, <<"1">>, <<"true">>,
    ArrText(<<>>), StrText("no") }

\* Answers that are not JSON.
MalformedBreakdowns ==
  { <<>>, Prose, <<"{">> \o Member("host", StrText("Excel")),
    Fenced(FJ, <<"{">>), Fenced(FT, BreakdownText("Excel", "true", 1, 51, "false")),
    <<FJ, WS>> \o BreakdownText("Excel", "true", 1, 51, "false") }

\* Answers in which a fenced json block and JSON text meet: two blocks, and
\* fences inside a JSON string.
MixedBreakdowns ==
  { Fenced(FJ, <<"x">>) \o Fenced(FJ, <<"1">>),
    ArrText(<<<<QT, FJ, WS, "1", WS, F3, QT>>>>),
    StrText(FJ) \o <<WS, F3>> }

\* The answers the workflow is run on: plain, and some of them in a fenced
\* json block after some prose.
BreakdownResponses ==
  FullBreakdowns \cup PartialBreakdowns \cup MalformedBreakdowns \cup MixedBreakdowns
  \cup {Prose \o Fenced(FJ, b) :
          b \in {BreakdownText("Excel", "true", 1, 50, "false"), <<"null">>, <<"{", "}">>}}

\* The texts userInputBreakdownTaskAsync is applied to on its own: every short
\* text, and every answer above, plain and in a fenced json block.
BreakdownTexts ==
  ShortTexts \cup BreakdownResponses \cup {Fenced(FJ, b) : b \in BreakdownResponses}

\* Code-generation answers: no block, a block after prose, two blocks, an
\* opening fence that is never closed, a block that is blank, a block in
\* another language, a second opening fence closing the first block, and a
\* block with a misspelt property load.
CodegenResponses ==
  { <<>>, Prose,
    Prose \o Fenced(FT, <<"codeA">>) \o <<WS, "done">>,
    Fenced(FT, <<"codeA">>) \o Fenced(FT, <<"codeB">>),
    <<FT, WS, "codeA">>,
    Fenced(FT, <<>>),
    Fenced(FJ, <<"codeA">>),
    <<FT, "codeA", FT, "codeB", F3>>,
    Fenced(FT, <<"codeA", WS, "laod">>) }

\* ------------------------------------------------------------- the Spec

\* The fields of Spec that invoke and generateCode read or write: the
\* appendix, the telemetry measurements (m...) and properties (p...) in it,
\* and sections.
MakeSpec(counter) ==
  [ host |-> Str(<<>>), codeTaskBreakdown |-> Arr(<<>>),
    isCustomFunction |-> Bool(FALSE), complexity |-> Num(0),
    codeSnippet |-> Str(<<>>), sections |-> Arr(<<>>),
    mFailed |-> counter, mAttempt |-> counter, mMatched |-> counter,
    mTime |-> counter,
    pResult |-> Undefined, pHost |-> Undefined, pIsCF |-> Undefined ]

\* A Spec as the caller hands it to the first invoke: nothing generated yet,
\* the counters absent or 0.
FreshSpecs == {MakeSpec(Undefined), MakeSpec(Num(0))}

\* The same with the counter set instead of added to.
IncrFromZero(counter, d) == Num(d)

\* measurements[k]: "if (!m[k]) m[k] = 0; m[k] += d".
Incr(counter, d) == IF Truthy(counter) THEN Num(counter.v + d) ELSE Num(d)

\* ------------------------------------------------------------ JS helpers

DigitTok(d) ==
  CASE d = 0 -> "0" [] d = 1 -> "1" [] d = 2 -> "2" [] d = 3 -> "3"
    [] d = 4 -> "4" [] d = 5 -> "5" [] d = 6 -> "6" [] d = 7 -> "7"
    [] d = 8 -> "8" [] OTHER -> "9"

RECURSIVE NatToText(_)
NatToText(n) == IF n < 10 THEN <<DigitTok(n)>> ELSE Append(NatToText(n \div 10), DigitTok(n % 10))

\* The text of a string that is a number to JavaScript (Number(s)): blank is
\* 0, a run of digits is its decimal value; nan: anything else.
TextToNumber(s) ==
  LET t == Trim(s) IN
  IF t = <<>> THEN [nan |-> FALSE, n |-> 0]
  ELSE IF \A i \in 1..Len(t) : t[i] \in Digits THEN [nan |-> FALSE, n |-> Decimal(t, 1, Len(t))]
  ELSE [nan |-> TRUE, n |-> 0]

\* JavaScript's ToNumber, for the comparison with 50.
RECURSIVE ToNumber(_)
ToNumber(v) ==
  CASE v.t = "num"  -> [nan |-> FALSE, n |-> v.v]
    [] v.t = "null" -> [nan |-> FALSE, n |-> 0]
    [] v.t = "bool" -> [nan |-> FALSE, n |-> IF v.v THEN 1 ELSE 0]
    [] v.t = "str"  -> TextToNumber(v.v)
    [] v.t = "arr"  ->
         IF Len(v.v) = 0 THEN [nan |-> FALSE, n |-> 0]
         ELSE IF Len(v.v) = 1 /\ v.v[1].t \in {"num", "str", "arr", "null"} THEN ToNumber(v.v[1])
         ELSE IF Len(v.v) = 1 /\ v.v[1].t = "undefined" THEN [nan |-> FALSE, n |-> 0]
         ELSE [nan |-> TRUE, n |-> 0]
    [] OTHER -> [nan |-> TRUE, n |-> 0]

\* x.toString() of a value that is neither undefined nor null.
ToStringOf(v) ==
  CASE v.t = "bool" -> Str(<<IF v.v THEN "true" ELSE "false">>)
    [] v.t = "str"  -> v
    [] v.t = "num"  -> Str(NatToText(v.v))
    [] v.t = "arr"  -> Str(<<"(array)">>)
    [] OTHER        -> Str(<<"[object Object]">>)

\* ------------------------------------------------------------ generateCode

ComplexityThreshold == 50

\* "spec.appendix.complexity >= 50": false for a value that is no number.
IsHighComplexity(complexity) ==
  LET c == ToNumber(complexity) IN ~c.nan /\ c.n >= ComplexityThreshold

\* The model the code-generation request is sent to.
CodeGenModel(complexity) ==
  IF IsHighComplexity(complexity) THEN "copilot-gpt-4" ELSE "copilot-gpt-3.5-turbo"

\* The choice made on the custom-function flag before the host.
ReferencePromptIgnoringHost(host, isCustomFunctions) ==
  IF Truthy(isCustomFunctions) THEN "cfSystemPrompt"
  ELSE IF host = Str(<<"Excel">>) THEN "excelSystemPrompt" ELSE ""

\* The switch on host: which reference prompt is the first system message.
ReferencePrompt(host, isCustomFunctions) ==
  IF host = Str(<<"Excel">>)
    THEN (IF ~Truthy(isCustomFunctions) THEN "excelSystemPrompt" ELSE "cfSystemPrompt")
    ELSE ""

\* correctPropertyLoadSpelling (../Utils) repairs misspelt property loads in
\* the snippet and leaves the rest as it is.
CorrectToken(tok) == IF tok = "laod" THEN "load" ELSE tok
correctPropertyLoadSpelling(code) == [i \in 1..Len(code) |-> CorrectToken(code[i])]

\* The end of generateCode applied to the response text: null when no fenced
\* typescript block is found, else the first block, trimmed and corrected.
ExtractCode(copilotResponse) ==
  LET codeSnippetRet == MatchFenced(FT, copilotResponse) IN
  IF ~codeSnippetRet.found THEN Null
  ELSE Str(correctPropertyLoadSpelling(Trim(codeSnippetRet.group)))

\* generateCode raises before its first await when the user prompt template
\* calls suggestedFunction.map on a value that is no array, or when
\* isCustomFunctions.toString() is called on undefined or null.
TemplateThrows(suggestedFunction) == suggestedFunction.t # "arr"
ToStringThrows(isCustomFunctions) == PropThrows(isCustomFunctions)

\* ----------------------------------------------------------------- state

VARIABLES
  pc,        \* where the call under way stands
  requests,  \* the requests sent to the remote model by that call, in order
  inflight,  \* the requests sent and not yet answered
  ubText,    \* the text the breakdown request returned
  ubRet,     \* what userInputBreakdownTaskAsync returned
  spec,      \* the Spec object handed to invoke
  specAtStart, \* that Spec as it was when the invoke under way began
  invokes,   \* the invokes begun so far
  progress,  \* response.progress messages of the invoke under way
  refPrompt, \* the reference prompt generateCode picked
  samples,   \* the number of scenario samples the sample provider returned
  gcText,    \* the text the code-generation request returned
  gcRet,     \* what generateCode returned
  result,    \* what invoke returned: an ExecutionResultEnum, or "Throw"
  dpc,       \* where the deploy action's execute stands
  inputs,    \* the inputs of the azure-function actions: projectPath, folder
  fsDirs,    \* the directories that exist
  envState,  \* ctx.envInfo.state
  dlog,      \* what execute and plan did, in order: logs, reads, calls
  workingDir, \* execute's workingDir
  dret,      \* what the deploy action's execute returned or raised
  planRet,   \* what the deploy action's plan returned
  confPlanRet, \* what the configure action's plan returned
  confExecRet, \* what the configure action's execute returned
  test,      \* the test of "check copilot access" under way, 0 when none
  hpc,       \* where checkCopilotAccessHandler stands
  calls,     \* the calls each stub has received since it was installed
  m365Status, \* what M365TokenInstance.getStatus resolved to
  hasCopilotAccess, \* what getCopilotStatus resolved to
  finished,  \* the tests that have run
  failures   \* the tests with an assertion that did not hold

genVars == <<spec, specAtStart, invokes, progress, refPrompt, samples, gcText, gcRet, result>>
deployVars == <<dpc, inputs, fsDirs, envState, dlog, workingDir, dret, planRet, confPlanRet, confExecRet>>
accessVars == <<test, hpc, calls, m365Status, hasCopilotAccess, finished, failures>>
vars == <<pc, requests, inflight, ubText, ubRet, genVars, deployVars, accessVars>>

NotYet == [threw |-> FALSE, v |-> Str(<<"(pending)">>)]

Request(stage, model) == [stage |-> stage, model |-> model]

NoReturn == [status |-> "(none)", error |-> "", effects |-> <<>>]

InitCodeGenerator ==
  /\ pc = "idle"
  /\ requests = <<>>
  /\ inflight = {}
  /\ ubText = <<>>
  /\ ubRet = NotYet
  /\ specAtStart = spec
  /\ invokes = 0
  /\ progress = <<>>
  /\ refPrompt = "(none)"
  /\ samples = 0
  /\ gcText = <<>>
  /\ gcRet = NotYet
  /\ result = "(none)"

InitAzureFunction ==
  /\ dpc = "idle"
  /\ dlog = <<>>
  /\ workingDir = <<>>
  /\ dret = NoReturn
  /\ planRet = NoReturn
  /\ confPlanRet = NoReturn
  /\ confExecRet = NoReturn

\* The stubs of the "check copilot access" tests, by their names.
StubNames ==
  {"getStatus", "getAccessToken", "getCopilotStatus", "showInformationMessage",
   "executeCommand", "semLog"}

NoCalls == [s \in StubNames |-> 0]

NoStatus == [isOk |-> FALSE, status |-> "(none)"]

InitAccess ==
  /\ test = 0
  /\ hpc = "idle"
  /\ calls = NoCalls
  /\ m365Status = NoStatus
  /\ hasCopilotAccess = FALSE
  /\ finished = {}
  /\ failures = {}

Init ==
  /\ spec \in FreshSpecs
  /\ InitCodeGenerator
  /\ InitAzureFunction
  /\ InitAccess
  /\ inputs = [projectPath |-> <<"proj">>, folder |-> <<"api">>]
  /\ fsDirs = {}
  /\ envState = Obj(<<>>)

\* userInputBreakdownTaskAsync up to its await: the request is sent to the
\* weaker model.
SendBreakdownRequest ==
  /\ requests' = Append(requests, Request("breakdown", "copilot-gpt-3.5-turbo"))
  /\ inflight' = inflight \cup {"breakdown"}

\* userInputBreakdownTaskAsync called on its own.
CallBreakdown ==
  /\ pc = "idle"
  /\ SendBreakdownRequest
  /\ pc' = "ub_await"
  /\ UNCHANGED <<ubText, ubRet, genVars, deployVars, accessVars>>

ReturnBreakdown ==
  /\ pc = "ub_await"
  /\ \E t \in BreakdownTexts :
       /\ ubText' = t
       /\ ubRet' = ParseBreakdownResponse(t)
  /\ inflight' = inflight \ {"breakdown"}
  /\ pc' = "ub_done"
  /\ UNCHANGED <<requests, genVars, deployVars, accessVars>>

\* ------------------------------------------------------------------ invoke

TopK == 2

\* "if (!breakdownResult.shouldContinue)" is not taken.
ShouldContinueAlways(breakdownResult) == TRUE

ShouldContinue(breakdownResult) == Truthy(GetProp(breakdownResult, <<"shouldContinue">>))

\* "(spec.appendix.codeTaskBreakdown as string[]).length == 0" for a value
\* that is neither undefined nor null.
LengthIsZero(v) == v.t \in {"str", "arr"} /\ Len(v.v) = 0

\* The guard of invoke read the other way round: the breakdown is skipped when
\* the Spec already holds a host and a task breakdown.
BreakdownGuardWhenMissing(host, codeTaskBreakdown) ==
  ~Truthy(host) \/ ~Truthy(codeTaskBreakdown) \/ LengthIsZero(codeTaskBreakdown)

\* "!!host || !!codeTaskBreakdown || codeTaskBreakdown.length == 0", for a
\* codeTaskBreakdown whose length can be read.
BreakdownGuard(host, codeTaskBreakdown) ==
  Truthy(host) \/ Truthy(codeTaskBreakdown) \/ LengthIsZero(codeTaskBreakdown)

\* The rejection branch with the appendix assigned before the test.
RejectedSpecOverwriting(sp, breakdownResult) ==
  [sp EXCEPT !.sections = GetProp(breakdownResult, <<"data">>),
             !.host = GetProp(breakdownResult, <<"host">>),
             !.codeTaskBreakdown = GetProp(breakdownResult, <<"data">>)]

\* "spec.sections = breakdownResult.data" of the rejection branch.
RejectedSpec(sp, breakdownResult) ==
  [sp EXCEPT !.sections = GetProp(breakdownResult, <<"data">>)]

\* "codeSnippet === null" in the place of "!codeSnippet".
CodeMissingNullOnly(codeSnippet) == codeSnippet = Null

\* "if (!codeSnippet)": null, and the empty string too.
CodeMissing(codeSnippet) == ~Truthy(codeSnippet)

\* invoke raised: the promise it returned is rejected.
InvokeThrows(sp, prog) ==
  /\ spec' = sp
  /\ progress' = prog
  /\ result' = "Throw"
  /\ pc' = "done"
  /\ UNCHANGED <<refPrompt, requests>>

\* invoke from the attempt counter on, through generateCode up to its first
\* await (the sample provider): sp is the Spec and prog the progress messages
\* at that point.
CodeGenStage(sp, prog) ==
  LET counted == [sp EXCEPT !.mAttempt = Incr(@, 1)]
      message == IF IsHighComplexity(counted.complexity)
                   THEN "This is a task with high complexity"
                   ELSE "We should be able to generate the code in a short while"
      host == counted.host
      isCustomFunctions == counted.isCustomFunction
      suggestedFunction == counted.codeTaskBreakdown
  IN IF TemplateThrows(suggestedFunction)
       THEN InvokeThrows(counted, Append(prog, message))
     ELSE IF ToStringThrows(isCustomFunctions)
       THEN InvokeThrows([counted EXCEPT !.pHost = host], Append(prog, message))
     ELSE /\ spec' = [counted EXCEPT !.pHost = host, !.pIsCF = ToStringOf(isCustomFunctions)]
          /\ progress' = Append(prog, message)
          /\ refPrompt' = ReferencePrompt(host, isCustomFunctions)
          /\ pc' = "samples"
          /\ UNCHANGED <<result, requests>>

\* invoke up to its first await.  The guard reads codeTaskBreakdown.length
\* only when host and codeTaskBreakdown are both falsy, and that read raises
\* when codeTaskBreakdown is undefined or null.
InvokeBegin ==
  /\ pc \in {"idle", "done"}
  /\ invokes < MaxInvokes
  /\ invokes' = invokes + 1
  /\ specAtStart' = spec
  /\ ubText' = <<>> /\ ubRet' = NotYet
  /\ gcText' = <<>> /\ gcRet' = NotYet
  /\ samples' = 0
  /\ UNCHANGED <<deployVars, accessVars>>
  /\ LET host == spec.host
         codeTaskBreakdown == spec.codeTaskBreakdown
     IN IF ~Truthy(host) /\ ~Truthy(codeTaskBreakdown) /\ PropThrows(codeTaskBreakdown)
          THEN /\ spec' = spec /\ progress' = <<>> /\ result' = "Throw" /\ pc' = "done"
               /\ refPrompt' = "(none)" /\ requests' = <<>> /\ inflight' = {}
        ELSE IF BreakdownGuard(host, codeTaskBreakdown)
          THEN /\ progress' = <<"Identify code-generation scenarios">>
               /\ requests' = <<Request("breakdown", "copilot-gpt-3.5-turbo")>>
               /\ inflight' = {"breakdown"}
               /\ pc' = "breakdown"
               /\ refPrompt' = "(none)"
               /\ result' = "(none)"
               /\ spec' = spec
        ELSE /\ spec' = [[spec EXCEPT !.mAttempt = Incr(@, 1)] EXCEPT
                           !.pHost = IF TemplateThrows(codeTaskBreakdown) THEN @ ELSE host,
                           !.pIsCF = IF TemplateThrows(codeTaskBreakdown)
                                        \/ ToStringThrows(spec.isCustomFunction)
                                       THEN @ ELSE ToStringOf(spec.isCustomFunction)]
             /\ progress' = <<IF IsHighComplexity(spec.complexity)
                                THEN "This is a task with high complexity"
                                ELSE "We should be able to generate the code in a short while">>
             /\ requests' = <<>> /\ inflight' = {}
             /\ IF TemplateThrows(codeTaskBreakdown) \/ ToStringThrows(spec.isCustomFunction)
                  THEN result' = "Throw" /\ pc' = "done" /\ refPrompt' = "(none)"
                  ELSE /\ result' = "(none)" /\ pc' = "samples"
                       /\ refPrompt' = ReferencePrompt(host, spec.isCustomFunction)

\* The breakdown request returns: the rest of userInputBreakdownTaskAsync, then
\* invoke up to its return or up to generateCode's first await.
BreakdownReturn ==
  /\ pc = "breakdown"
  /\ \E copilotResponse \in BreakdownResponses :
       LET ret == ParseBreakdownResponse(copilotResponse)
           breakdownResult == ret.v
       IN /\ ubText' = copilotResponse
          /\ ubRet' = ret
          /\ IF ret.threw THEN InvokeThrows(spec, progress)
             ELSE IF ~Truthy(breakdownResult)
               THEN /\ spec' = [spec EXCEPT !.mFailed = Incr(@, 1)]
                    /\ result' = "Failure"
                    /\ pc' = "done"
                    /\ UNCHANGED <<progress, refPrompt, requests>>
             ELSE IF ~ShouldContinue(breakdownResult)
               THEN /\ spec' = RejectedSpec(spec, breakdownResult)
                    /\ result' = "Rejected"
                    /\ pc' = "done"
                    /\ UNCHANGED <<progress, refPrompt, requests>>
             ELSE CodeGenStage(
                    [spec EXCEPT
                       !.host = GetProp(breakdownResult, <<"host">>),
                       !.codeTaskBreakdown = GetProp(breakdownResult, <<"data">>),
                       !.isCustomFunction = GetProp(breakdownResult, <<"customFunctions">>),
                       !.complexity = GetProp(breakdownResult, <<"complexity">>)],
                    progress)
  /\ inflight' = inflight \ {"breakdown"}
  /\ UNCHANGED <<specAtStart, invokes, samples, gcText, gcRet, deployVars, accessVars>>

\* The sample provider returns at most TopK samples: the matched counter, then
\* the code-generation request, to the model the complexity selects.
SamplesReturn ==
  /\ pc = "samples"
  /\ \E size \in 0..TopK :
       /\ samples' = size
       /\ spec' = [spec EXCEPT !.mMatched = Incr(@, IF size > 0 THEN 1 ELSE 0)]
  /\ requests' = Append(requests, Request("codegen", CodeGenModel(spec.complexity)))
  /\ inflight' = inflight \cup {"codegen"}
  /\ pc' = "codegen"
  /\ UNCHANGED <<ubText, ubRet, specAtStart, invokes, progress, refPrompt, gcText, gcRet, result, deployVars, accessVars>>

\* The code-generation request returns: the rest of generateCode, then the
\* rest of invoke.  The duration of the invoke is counted as one unit.
CodegenReturn ==
  /\ pc = "codegen"
  /\ \E copilotResponse \in CodegenResponses :
       LET codeSnippet == ExtractCode(copilotResponse)
           timed == [spec EXCEPT !.mTime = Incr(@, 1)]
       IN /\ gcText' = copilotResponse
          /\ gcRet' = Returned(codeSnippet)
          /\ IF CodeMissing(codeSnippet)
               THEN /\ spec' = [timed EXCEPT !.pResult = Str(<<"false">>)]
                    /\ result' = "Failure"
               ELSE /\ spec' = [timed EXCEPT !.pResult = Str(<<"true">>),
                                             !.codeSnippet = codeSnippet]
                    /\ result' = "Success"
  /\ inflight' = inflight \ {"codegen"}
  /\ pc' = "done"
  /\ UNCHANGED <<ubText, ubRet, specAtStart, invokes, progress, refPrompt, samples, requests, deployVars, accessVars>>

NextGen == InvokeBegin \/ BreakdownReturn \/ SamplesReturn \/ CodegenReturn

SpecGen == Init /\ [][NextGen]_vars

\* ------------------------------------------- AzureFunctionResource actions

codeGeneratorVars == <<pc, requests, inflight, ubText, ubRet, genVars>>

ResourceName == <<"azure-function">>
EndpointKey == <<"endpoint">>
ResourceIdKey == <<"resourceId">>

\* path.join on paths given as their segments: "." is dropped, ".." takes
\* back the segment before it, and the empty path is ".".
RECURSIVE Normalize(_, _)
Normalize(rest, acc) ==
  IF rest = <<>> THEN acc
  ELSE IF Head(rest) = "." THEN Normalize(Tail(rest), acc)
  ELSE IF Head(rest) = ".." /\ acc # <<>> /\ acc[Len(acc)] # ".."
         THEN Normalize(Tail(rest), SubSeq(acc, 1, Len(acc) - 1))
  ELSE Normalize(Tail(rest), Append(acc, Head(rest)))

PathJoin(a, b) ==
  LET n == Normalize(a \o b, <<>>) IN IF n = <<>> THEN <<".">> ELSE n

Effect(remarks) == [type |-> "service", name |-> "azure", remarks |-> remarks]
Ok(effects) == [status |-> "ok", error |-> "", effects |-> effects]
Threw(error) == [status |-> "throw", error |-> error, effects |-> <<>>]

DeployRemarks(dir) == <<"deploy azure function in folder:">> \o dir
ConfigureRemarks == <<"config azure function">>

\* CheckThrowSomethingMissing (bot/v3/error) raises the precondition error
\* naming the key when the value is missing.
SomethingMissing(value) == ~Truthy(value)

\* fs.pathExists(workingDir).
PackDirAlwaysExisted(dir, dirs) == TRUE

PackDirExisted(dir, dirs) == dir \in dirs

\* A plan that logs as execute does.
DeployPlanLogging ==
  /\ planRet' = [status |-> "ok", error |-> "",
                 effects |-> <<[type |-> "service", name |-> "azure",
                                remarks |-> <<"deploy azure function in folder:">>
                                              \o inputs.folder]>>]
  /\ dlog' = Append(dlog, [op |-> "logProvider.info", arg |-> <<"DeployingBot">>])
  /\ UNCHANGED <<dpc, inputs, fsDirs, envState, workingDir, dret, confPlanRet, confExecRet>>
  /\ UNCHANGED <<codeGeneratorVars, accessVars>>

\* The plan callback of the deploy action.
DeployPlan ==
  /\ planRet' = Ok(<<Effect(DeployRemarks(PathJoin(inputs.projectPath, inputs.folder)))>>)
  /\ UNCHANGED <<dpc, inputs, fsDirs, envState, dlog, workingDir, dret, confPlanRet, confExecRet>>
  /\ UNCHANGED <<codeGeneratorVars, accessVars>>

\* The plan callback of the configure action.
ConfigurePlan ==
  /\ confPlanRet' = Ok(<<Effect(ConfigureRemarks)>>)
  /\ UNCHANGED <<dpc, inputs, fsDirs, envState, dlog, workingDir, dret, planRet, confExecRet>>
  /\ UNCHANGED <<codeGeneratorVars, accessVars>>

\* The execute callback of the configure action.
ConfigureExecute ==
  /\ confExecRet' = Ok(<<Effect(ConfigureRemarks)>>)
  /\ UNCHANGED <<dpc, inputs, fsDirs, envState, dlog, workingDir, dret, planRet, confPlanRet>>
  /\ UNCHANGED <<codeGeneratorVars, accessVars>>

Event(op, arg) == [op |-> op, arg |-> arg]

\* execute of the deploy action up to "await fs.pathExists": the log line and
\* the working directory (path.join never returns the empty string, so the
\* first precondition never fails).
DeployExecuteBegin ==
  /\ dpc = "idle"
  /\ LET dir == PathJoin(inputs.projectPath, inputs.folder) IN
       /\ workingDir' = dir
       /\ dlog' = dlog \o <<Event("logProvider.info", <<"DeployingBot">>),
                            Event("fs.pathExists", dir)>>
  /\ dpc' = "pathExists"
  /\ UNCHANGED <<inputs, fsDirs, envState, dret, planRet, confPlanRet, confExecRet>>
  /\ UNCHANGED <<codeGeneratorVars, accessVars>>

\* fs.pathExists returns: the directory check, then the provisioning state and
\* its two checks, up to "await utils.zipFolderAsync".
DeployExecuteChecks ==
  /\ dpc = "pathExists"
  /\ LET packDirExisted == PackDirExisted(workingDir, fsDirs)
         states == GetProp(envState, ResourceName)
         endpoint == GetProp(states, EndpointKey)
         resourceId == GetProp(states, ResourceIdKey)
         read == Append(dlog, Event("envInfo.state", ResourceName))
     IN IF ~packDirExisted
          THEN /\ dret' = Threw("PackDirectoryExistenceError")
               /\ dlog' = dlog
               /\ dpc' = "done"
        ELSE IF PropThrows(states)
          THEN /\ dret' = Threw("TypeError")
               /\ dlog' = read
               /\ dpc' = "done"
        ELSE IF SomethingMissing(endpoint)
          THEN /\ dret' = Threw("PreconditionError: endpoint is missing")
               /\ dlog' = read
               /\ dpc' = "done"
        ELSE IF SomethingMissing(resourceId)
          THEN /\ dret' = Threw("PreconditionError: resourceId is missing")
               /\ dlog' = read
               /\ dpc' = "done"
        ELSE /\ dlog' = Append(read, Event("zipFolderAsync", workingDir))
             /\ dpc' = "zip"
             /\ dret' = dret
  /\ UNCHANGED <<inputs, fsDirs, envState, workingDir, planRet, confPlanRet, confExecRet>>
  /\ UNCHANGED <<codeGeneratorVars, accessVars>>

\* zipFolderAsync returns the buffer, or raises; with the buffer,
\* azureWebSiteDeploy is called with the resource id of the state.
DeployExecuteZipped ==
  /\ dpc = "zip"
  /\ \E zipped \in BOOLEAN :
       IF zipped
         THEN /\ dlog' = Append(dlog, Event("azureWebSiteDeploy",
                           GetProp(GetProp(envState, ResourceName), ResourceIdKey).v))
              /\ dpc' = "deploy"
              /\ dret' = dret
         ELSE /\ dret' = Threw("zipFolderAsync failed")
              /\ dpc' = "done"
              /\ dlog' = dlog
  /\ UNCHANGED <<inputs, fsDirs, envState, workingDir, planRet, confPlanRet, confExecRet>>
  /\ UNCHANGED <<codeGeneratorVars, accessVars>>

\* azureWebSiteDeploy returns, or raises: execute returns its effect.
DeployExecuteDeployed ==
  /\ dpc = "deploy"
  /\ \E deployed \in BOOLEAN :
       dret' = IF deployed THEN Ok(<<Effect(DeployRemarks(workingDir))>>)
               ELSE Threw("azureWebSiteDeploy failed")
  /\ dpc' = "done"
  /\ UNCHANGED <<inputs, fsDirs, envState, dlog, workingDir, planRet, confPlanRet, confExecRet>>
  /\ UNCHANGED <<codeGeneratorVars, accessVars>>

\* The provisioning state of the resource: no entry, or an entry in which each
\* of the two outputs is missing, empty or set.
OutputValues(word) == {Undefined, Str(<<>>), Str(<<word>>)}

StateEntry(endpoint, resourceId) ==
  Obj((IF endpoint = Undefined THEN <<>> ELSE <<[k |-> EndpointKey, v |-> endpoint]>>) \o
      (IF resourceId = Undefined THEN <<>> ELSE <<[k |-> ResourceIdKey, v |-> resourceId]>>))

EnvStates ==
  {Obj(<<>>)} \cup
  {Obj(<<[k |-> ResourceName, v |-> StateEntry(e, r)]>>) :
     e \in OutputValues("https://fn.example"), r \in OutputValues("/subscriptions/s/sites/fn")}

InitDeploy ==
  /\ spec = MakeSpec(Undefined)
  /\ InitCodeGenerator
  /\ InitAzureFunction
  /\ InitAccess
  /\ inputs \in [projectPath : {<<"proj">>, <<"work", "proj">>},
                 folder : {<<"api">>, <<".">>, <<"..", "proj", "api">>}]
  /\ fsDirs \in SUBSET {<<"proj">>, <<"proj", "api">>}
  /\ envState \in EnvStates

NextDeploy ==
  \/ DeployPlan
  \/ ConfigurePlan
  \/ ConfigureExecute
  \/ DeployExecuteBegin
  \/ DeployExecuteChecks
  \/ DeployExecuteZipped
  \/ DeployExecuteDeployed

SpecDeploy == InitDeploy /\ [][NextDeploy]_vars

NextText == CallBreakdown \/ ReturnBreakdown

SpecText == Init /\ [][NextText]_vars

\* ------------------------------------------- checkCopilotAccessHandler

\* The four tests of "check copilot access": not signed in with access, not
\* signed in without, signed in without access, signed in with.
AccessTests == {1, 2, 3, 4}

\* What the getStatus stub of each test resolves to: err({error: "unknown"}),
\* or ok({status: "SignedIn", ...}).
GetStatusStub(t) ==
  IF t \in {1, 2} THEN [isOk |-> FALSE, status |-> "unknown"]
  ELSE [isOk |-> TRUE, status |-> "SignedIn"]

\* What the getCopilotStatus stub of each test resolves to.
GetCopilotStatusStub(t) == t \in {1, 4}

\* The assertions that close each test: every stub called once, but for the
\* message and the command, which the signed-in tests expect not called.
AssertionsHold(t, c) ==
  /\ c["getStatus"] = 1
  /\ c["showInformationMessage"] = (IF t \in {1, 2} THEN 1 ELSE 0)
  /\ c["executeCommand"] = (IF t \in {1, 2} THEN 1 ELSE 0)
  /\ c["getAccessToken"] = 1
  /\ c["getCopilotStatus"] = 1
  /\ c["semLog"] = 1

Called(c, stub) == [c EXCEPT ![stub] = @ + 1]

\* The handler asking for the sign-in whatever the status.
NeedsSignInAlways(status) == TRUE

\* The handler asks for the sign-in unless the status query succeeded and
\* reports a signed-in account.
NeedsSignIn(status) == ~(status.isOk /\ status.status = "SignedIn")

\* A test installs its stubs and calls the handler.  Each test installs its
\* own stubs and restores them when it ends, so the tests run in any
\* order.
TestBegin ==
  /\ test = 0
  /\ \E t \in AccessTests \ finished : test' = t
  /\ calls' = NoCalls
  /\ m365Status' = NoStatus
  /\ hasCopilotAccess' = FALSE
  /\ hpc' = "getStatus"
  /\ UNCHANGED <<finished, failures, codeGeneratorVars, deployVars>>

HandlerGetStatus ==
  /\ hpc = "getStatus"
  /\ calls' = Called(calls, "getStatus")
  /\ m365Status' = GetStatusStub(test)
  /\ hpc' = IF NeedsSignIn(GetStatusStub(test)) THEN "showMessage" ELSE "getAccessToken"
  /\ UNCHANGED <<test, hasCopilotAccess, finished, failures, codeGeneratorVars, deployVars>>

\* The message resolves to its "Sign in" item in every test.
HandlerShowMessage ==
  /\ hpc = "showMessage"
  /\ calls' = Called(calls, "showInformationMessage")
  /\ hpc' = "signIn"
  /\ UNCHANGED <<test, m365Status, hasCopilotAccess, finished, failures, codeGeneratorVars, deployVars>>

HandlerSignIn ==
  /\ hpc = "signIn"
  /\ calls' = Called(calls, "executeCommand")
  /\ hpc' = "getAccessToken"
  /\ UNCHANGED <<test, m365Status, hasCopilotAccess, finished, failures, codeGeneratorVars, deployVars>>

\* The access token resolves to ok("stubedString") in every test.
HandlerGetAccessToken ==
  /\ hpc = "getAccessToken"
  /\ calls' = Called(calls, "getAccessToken")
  /\ hpc' = "getCopilotStatus"
  /\ UNCHANGED <<test, m365Status, hasCopilotAccess, finished, failures, codeGeneratorVars, deployVars>>

HandlerGetCopilotStatus ==
  /\ hpc = "getCopilotStatus"
  /\ calls' = Called(calls, "getCopilotStatus")
  /\ hasCopilotAccess' = GetCopilotStatusStub(test)
  /\ hpc' = "semLog"
  /\ UNCHANGED <<test, m365Status, finished, failures, codeGeneratorVars, deployVars>>

\* One log entry, with or without access, and the handler returns.
HandlerSemLog ==
  /\ hpc = "semLog"
  /\ calls' = Called(calls, "semLog")
  /\ hpc' = "returned"
  /\ UNCHANGED <<test, m365Status, hasCopilotAccess, finished, failures, codeGeneratorVars, deployVars>>

\* The assertions of the test, then afterEach.
TestEnd ==
  /\ hpc = "returned"
  /\ finished' = finished \cup {test}
  /\ failures' = IF AssertionsHold(test, calls) THEN failures ELSE failures \cup {test}
  /\ test' = 0
  /\ hpc' = "idle"
  /\ calls' = NoCalls
  /\ UNCHANGED <<m365Status, hasCopilotAccess, codeGeneratorVars, deployVars>>

NextAccess ==
  \/ TestBegin
  \/ HandlerGetStatus
  \/ HandlerShowMessage
  \/ HandlerSignIn
  \/ HandlerGetAccessToken
  \/ HandlerGetCopilotStatus
  \/ HandlerSemLog
  \/ TestEnd

SpecAccess == Init /\ [][NextAccess]_vars

\* ------------------------------------------------------------ the claims

\* The words of the claims.

\* The places of text where a fenced block of the language opens: an opening
\* fence with a fence somewhere after it.
BlockStarts(open, t) ==
  {i \in 1..Len(t) : t[i] = open /\ \E j \in (i+1)..Len(t) : IsFence(t[j])}

\* The content of the block that opens at i: up to the nearest fence.
BlockContent(t, i) ==
  SubSeq(t, i + 1, SetMin({j \in (i+1)..Len(t) : IsFence(t[j])}) - 1)

ValidJsonText(t) == JSONparse(Trim(t)).ok

HasValidJsonBlock(t) == \E i \in BlockStarts(FJ, t) : ValidJsonText(BlockContent(t, i))

BreakdownFields == {"host", "shouldContinue", "data", "complexity", "customFunctions"}

Populated(v) == v.t = "obj" /\ \A f \in BreakdownFields : HasKey(v, <<f>>)

\* What parsing text gives the caller: the parsed value, null when it is no JSON.
ParsedOrNull(t) == LET p == JSONparse(Trim(t)) IN IF p.ok THEN p.v ELSE Null

CodegenRequests == {i \in 1..Len(requests) : requests[i].stage = "codegen"}
BreakdownRequests == {i \in 1..Len(requests) : requests[i].stage = "breakdown"}

\* C1: the code-generation request goes to copilot-gpt-4 if and only if the
\* stored complexity is strictly greater than 50; at 50 and below it goes to
\* copilot-gpt-3.5-turbo.
C1_StrongerModelIffAbove50 ==
  \A i \in CodegenRequests :
    /\ requests[i].model = "copilot-gpt-4"
         <=> (spec.complexity.t = "num" /\ spec.complexity.v > 50)
    /\ requests[i].model = "copilot-gpt-3.5-turbo"
         <=> ~(spec.complexity.t = "num" /\ spec.complexity.v > 50)

\* C2: a breakdown response that is valid JSON, as a whole or in a fenced json
\* block, makes userInputBreakdownTaskAsync return an object that carries
\* host, shouldContinue, data, complexity and customFunctions.
C2_ValidJsonYieldsPopulated ==
  (pc = "ub_done" /\ (ValidJsonText(ubText) \/ HasValidJsonBlock(ubText)))
    => (~ubRet.threw /\ Populated(ubRet.v))

\* C3: a breakdown response that is neither valid JSON as a whole nor holds a
\* fenced json block of valid JSON makes userInputBreakdownTaskAsync return
\* null, and it does not throw.
C3_MalformedYieldsNull ==
  (pc = "ub_done" /\ ~ValidJsonText(ubText) /\ ~HasValidJsonBlock(ubText))
    => ubRet = Returned(Null)

\* C3's case: a malformed response whose fenced json block is no JSON.
C3_Witness ==
  /\ pc = "ub_done"
  /\ ~ValidJsonText(ubText) /\ ~HasValidJsonBlock(ubText)
  /\ BlockStarts(FJ, ubText) # {}
  /\ ubRet = Returned(Null)

\* C10 as stated: a response that is valid JSON as a whole is returned as the
\* parse of the whole text, whether or not it holds a fenced json block.
C10_WholeTextParsedFirst ==
  (pc = "ub_done" /\ ValidJsonText(ubText)) => ubRet = Returned(ParsedOrNull(ubText))

\* C10 amended: the fenced json block is looked for first.  With a block, the
\* result is the parse of the first block alone (null when that is no JSON,
\* the whole text is not tried); only without any block is the result the
\* parse of the whole text.
C10_FencedBlockParsedFirst ==
  pc = "ub_done" =>
    IF BlockStarts(FJ, ubText) # {}
      THEN ubRet = Returned(ParsedOrNull(BlockContent(ubText, SetMin(BlockStarts(FJ, ubText)))))
      ELSE ubRet = Returned(ParsedOrNull(ubText))

\* C10's case: valid JSON as a whole that also holds a fenced json block, and
\* the result is not the parse of the whole text.
C10_Witness ==
  /\ pc = "ub_done"
  /\ ValidJsonText(ubText)
  /\ BlockStarts(FJ, ubText) # {}
  /\ ubRet # Returned(ParsedOrNull(ubText))

\* The number a counter stands for: 0 while it is absent.
NumberOf(counter) == IF Truthy(counter) THEN counter.v ELSE 0

AppendixUnchanged ==
  /\ spec.host = specAtStart.host
  /\ spec.codeTaskBreakdown = specAtStart.codeTaskBreakdown
  /\ spec.isCustomFunction = specAtStart.isCustomFunction
  /\ spec.complexity = specAtStart.complexity
  /\ spec.codeSnippet = specAtStart.codeSnippet

\* C4: when the breakdown stage yields null, invoke returns Failure, the
\* task-breakdown-failed counter is one more than before (0 when absent),
\* one breakdown request and no code-generation request was sent, and host,
\* codeTaskBreakdown, isCustomFunction, complexity and codeSnippet are as
\* they were.
C4_NullBreakdownFails ==
  (pc = "done" /\ ubRet = Returned(Null)) =>
    /\ result = "Failure"
    /\ spec.mFailed = Num(NumberOf(specAtStart.mFailed) + 1)
    /\ Cardinality(BreakdownRequests) = 1
    /\ CodegenRequests = {}
    /\ AppendixUnchanged

\* C4's case: the breakdown yields null in an invoke on a Spec that an earlier
\* invoke has filled, the counter still absent.
C4_Witness ==
  /\ pc = "done" /\ ubRet = Returned(Null)
  /\ specAtStart.host = Str(<<"Excel">>)
  /\ specAtStart.mFailed = Undefined
  /\ spec.mFailed = Num(1)

HasTypescriptBlock(t) == BlockStarts(FT, t) # {}

\* C5: generateCode returns null exactly when the response holds no fenced
\* typescript block; with one or more blocks the code returned comes from the
\* first block alone.  When it returns null, invoke returns Failure, the
\* code-gen result property is "false" and codeSnippet is as it was.
C5_NullIffNoTypescriptBlock ==
  (pc = "done" /\ gcRet # NotYet) =>
    /\ gcRet.v = Null <=> ~HasTypescriptBlock(gcText)
    /\ HasTypescriptBlock(gcText) =>
         gcRet.v = Str(correctPropertyLoadSpelling(
                         Trim(BlockContent(gcText, SetMin(BlockStarts(FT, gcText))))))
    /\ gcRet.v = Null =>
         /\ result = "Failure"
         /\ spec.pResult = Str(<<"false">>)
         /\ spec.codeSnippet = specAtStart.codeSnippet

\* C5's case: no typescript block in the response of an invoke on a Spec that
\* holds the code of an earlier invoke.
C5_Witness ==
  /\ pc = "done" /\ gcRet = Returned(Null)
  /\ ~HasTypescriptBlock(gcText)
  /\ specAtStart.codeSnippet = Str(<<"codeA">>)
  /\ spec.pResult = Str(<<"false">>)

TargetDir == PathJoin(inputs.projectPath, inputs.folder)

DeployEvents(ops) == {i \in 1..Len(dlog) : dlog[i].op \in ops}

\* C6: when the target directory does not exist, execute raises the
\* directory-existence error before the provisioning state is read, and
\* neither zipFolderAsync nor azureWebSiteDeploy is called.
C6_MissingDirectoryFailsFast ==
  (dpc # "idle" /\ TargetDir \notin fsDirs) =>
    /\ DeployEvents({"envInfo.state", "zipFolderAsync", "azureWebSiteDeploy"}) = {}
    /\ dpc \in {"pathExists", "done"}
    /\ dpc = "done" => dret = Threw("PackDirectoryExistenceError")

\* C6's case: the directory is absent while the provisioning state is complete.
C6_Witness ==
  /\ dpc = "done" /\ TargetDir \notin fsDirs
  /\ Truthy(GetProp(GetProp(envState, ResourceName), EndpointKey))
  /\ Truthy(GetProp(GetProp(envState, ResourceName), ResourceIdKey))
  /\ dret = Threw("PackDirectoryExistenceError")

NoStateEntry == ~HasKey(envState, ResourceName)
EndpointAbsent == NoStateEntry \/ ~Truthy(GetProp(GetProp(envState, ResourceName), EndpointKey))
ResourceIdAbsent == NoStateEntry \/ ~Truthy(GetProp(GetProp(envState, ResourceName), ResourceIdKey))

\* C7: with the directory present, a provisioning state that lacks the
\* endpoint or the resource id (the key missing or empty, or no entry for the
\* resource) makes execute raise the missing-state error, the endpoint's
\* first, and call neither zipFolderAsync nor azureWebSiteDeploy;
\* azureWebSiteDeploy is called only after the directory check and both state
\* checks, with the resource id of the state.
C7_MissingStateRaisesTypedError ==
  /\ (dpc = "done" /\ TargetDir \in fsDirs /\ (EndpointAbsent \/ ResourceIdAbsent)) =>
       /\ dret = IF EndpointAbsent THEN Threw("PreconditionError: endpoint is missing")
                 ELSE Threw("PreconditionError: resourceId is missing")
       /\ DeployEvents({"zipFolderAsync", "azureWebSiteDeploy"}) = {}
  /\ \A i \in DeployEvents({"azureWebSiteDeploy"}) :
       /\ TargetDir \in fsDirs /\ ~EndpointAbsent /\ ~ResourceIdAbsent
       /\ dlog[i].arg = GetProp(GetProp(envState, ResourceName), ResourceIdKey).v
       /\ \E j \in DeployEvents({"envInfo.state"}) : j < i

\* C8: a plan callback of deploy or configure returns ok and changes nothing
\* else (no log, no read, no call, no state of execute); and the effect given
\* by deploy's plan is the effect a successful execute returns.
C8_PlanHasNoSideEffect ==
  /\ [](/\ planRet.status \in {"(none)", "ok"}
        /\ confPlanRet.status \in {"(none)", "ok"}
        /\ (dret.status = "ok" /\ planRet.status = "ok") => planRet.effects = dret.effects)
  /\ [][(planRet' # planRet \/ confPlanRet' # confPlanRet) =>
          UNCHANGED <<dpc, inputs, fsDirs, envState, dlog, workingDir, dret, confExecRet>>]_vars

\* C8's case: plan and a successful execute have both returned, for a folder
\* that path.join rewrites.
C8_Witness ==
  /\ planRet.status = "ok" /\ confPlanRet.status = "ok"
  /\ dret.status = "ok"
  /\ inputs.folder = <<"..", "proj", "api">>
  /\ planRet.effects[1].remarks = <<"deploy azure function in folder:", "proj", "api">>

\* C9: within one invoke the code-generation request is sent only after the
\* breakdown response has come back, been parsed and been accepted; the two
\* requests are never in flight together; each is sent at most once; and the
\* code is extracted only after the code-generation response.
C9_StagesInOrder ==
  /\ Cardinality(inflight) <= 1
  /\ Cardinality(BreakdownRequests) <= 1
  /\ Cardinality(CodegenRequests) <= 1
  /\ \A i \in CodegenRequests :
       /\ \E j \in BreakdownRequests : j < i
       /\ "breakdown" \notin inflight
       /\ ubRet # NotYet /\ ~ubRet.threw
       /\ Truthy(GetProp(ubRet.v, <<"shouldContinue">>))
  /\ gcRet # NotYet => (CodegenRequests # {} /\ inflight = {})

\* C9's case: both requests of an invoke were sent and answered.
C9_Witness ==
  /\ pc = "done" /\ result = "Success"
  /\ Len(requests) = 2
  /\ requests[1].stage = "breakdown" /\ requests[2].stage = "codegen"

\* C12: whatever the remote model answers in either stage, invoke raises no
\* exception: once it is over it has returned Failure, Rejected or Success.
C12_InvokeNeverThrows ==
  /\ result # "Throw"
  /\ pc = "done" => result \in {"Failure", "Rejected", "Success"}

Accepted == ubRet # NotYet /\ Truthy(ubRet.v) /\ ShouldContinue(ubRet.v)

\* C13: when the breakdown result has shouldContinue false, invoke returns
\* Rejected, sections is the breakdown's data, no code-generation request is
\* sent, the attempt counter is as it was, and host, codeTaskBreakdown,
\* isCustomFunction, complexity and codeSnippet are as they were.
C13_RejectedLeavesAppendix ==
  (pc = "done" /\ GetProp(ubRet.v, <<"shouldContinue">>) = Bool(FALSE)) =>
    /\ result = "Rejected"
    /\ spec.sections = GetProp(ubRet.v, <<"data">>)
    /\ CodegenRequests = {}
    /\ spec.mAttempt = specAtStart.mAttempt
    /\ AppendixUnchanged

\* C13's case: a rejection in an invoke on a Spec that an earlier invoke has
\* filled with a host, tasks and code.
C13_Witness ==
  /\ pc = "done" /\ result = "Rejected"
  /\ GetProp(ubRet.v, <<"shouldContinue">>) = Bool(FALSE)
  /\ specAtStart.host = Str(<<"Word">>)
  /\ specAtStart.codeSnippet = Str(<<"codeA">>)
  /\ spec.sections = Arr(<<Str(<<"taskA">>)>>)

InGenerateCode == pc \in {"samples", "codegen"} \/ (pc = "done" /\ gcRet # NotYet)

\* C14: the reference prompt is the general Excel prompt for host "Excel"
\* with isCustomFunctions false, the custom-functions prompt for host "Excel"
\* with isCustomFunctions true, and empty for every other host, so that the
\* custom-functions prompt goes with host "Excel" only.
C14_ReferencePromptByHost ==
  InGenerateCode =>
    /\ (spec.host = Str(<<"Excel">>) /\ spec.isCustomFunction = Bool(FALSE))
         => refPrompt = "excelSystemPrompt"
    /\ (spec.host = Str(<<"Excel">>) /\ spec.isCustomFunction = Bool(TRUE))
         => refPrompt = "cfSystemPrompt"
    /\ spec.host # Str(<<"Excel">>) => refPrompt = ""
    /\ refPrompt = "cfSystemPrompt" => spec.host = Str(<<"Excel">>)

\* C14's case: custom functions asked for on a host that is not Excel.
C14_Witness ==
  /\ pc = "codegen"
  /\ spec.host = Str(<<"Word">>)
  /\ spec.isCustomFunction = Bool(TRUE)
  /\ refPrompt = ""

\* C15: an invoke on a Spec whose codeTaskBreakdown is an array sends the
\* breakdown request, whatever the host; and once the breakdown is accepted,
\* host, codeTaskBreakdown, isCustomFunction and complexity are those of the
\* new breakdown, and the code-generation request goes to the model that the
\* new complexity selects.
C15_BreakdownNeverSkipped ==
  /\ (invokes > 0 /\ specAtStart.codeTaskBreakdown.t = "arr") =>
       /\ Cardinality(BreakdownRequests) = 1
       /\ \A i \in CodegenRequests : \E j \in BreakdownRequests : j < i
  /\ (Accepted /\ specAtStart.codeTaskBreakdown.t = "arr") =>
       /\ spec.host = GetProp(ubRet.v, <<"host">>)
       /\ spec.codeTaskBreakdown = GetProp(ubRet.v, <<"data">>)
       /\ spec.isCustomFunction = GetProp(ubRet.v, <<"customFunctions">>)
       /\ spec.complexity = GetProp(ubRet.v, <<"complexity">>)
       /\ \A i \in CodegenRequests :
            requests[i].model = CodeGenModel(GetProp(ubRet.v, <<"complexity">>))

\* C15's case: the Spec holds host, tasks and a high complexity of an earlier
\* invoke, and the new breakdown gives a low complexity.
C15_Witness ==
  /\ pc = "codegen" /\ invokes = 2
  /\ specAtStart.host = Str(<<"Excel">>)
  /\ specAtStart.codeTaskBreakdown = Arr(<<Str(<<"taskA">>)>>)
  /\ specAtStart.complexity = Num(51)
  /\ spec.complexity = Num(49)
  /\ requests = <<Request("breakdown", "copilot-gpt-3.5-turbo"),
                  Request("codegen", "copilot-gpt-3.5-turbo")>>

\* C16: when invoke returns Success, codeSnippet is the code extracted in that
\* invoke, not empty, and the code-gen result property is "true"; when it
\* returns Failure or Rejected, codeSnippet is as it was before the invoke; a
\* typescript block that is empty once trimmed gives Failure.
C16_SuccessHoldsExtractedCode ==
  pc = "done" =>
    /\ result = "Success" =>
         /\ gcRet # NotYet /\ gcRet.v.t = "str" /\ gcRet.v.v # <<>>
         /\ spec.codeSnippet = gcRet.v
         /\ gcRet.v.v = correctPropertyLoadSpelling(
                          Trim(BlockContent(gcText, SetMin(BlockStarts(FT, gcText)))))
         /\ spec.pResult = Str(<<"true">>)
    /\ result \in {"Failure", "Rejected"} => spec.codeSnippet = specAtStart.codeSnippet
    /\ (HasTypescriptBlock(gcText)
          /\ Trim(BlockContent(gcText, SetMin(BlockStarts(FT, gcText)))) = <<>>)
         => result = "Failure"

\* C16's case: a blank typescript block in an invoke on a Spec that holds the
\* code of an earlier invoke.
C16_Witness ==
  /\ pc = "done" /\ result = "Failure"
  /\ gcText = Fenced(FT, <<>>)
  /\ gcRet = Returned(Str(<<>>))
  /\ specAtStart.codeSnippet = Str(<<"codeA">>)
  /\ spec.codeSnippet = Str(<<"codeA">>)

\* The invoke under way has passed the attempt counter: its last progress
\* message is the one sent right after the counter.
ReachedCodeGen ==
  /\ progress # <<>>
  /\ progress[Len(progress)] # "Identify code-generation scenarios"

AttemptDelta == NumberOf(spec.mAttempt) - NumberOf(specAtStart.mAttempt)
FailedDelta == NumberOf(spec.mFailed) - NumberOf(specAtStart.mFailed)

\* C17: the counters start absent or 0, so they equal the numbers of invokes
\* when each invoke adds as follows.  The attempt counter grows by one in an
\* invoke that reaches the code-generation stage and not at all in any other;
\* the breakdown-failed counter grows by one in an invoke whose breakdown
\* yields null and not at all in any other; the sample-matched counter is
\* at most the attempt counter; an invoke adds to at most one of the attempt
\* and the breakdown-failed counter; and no step makes a counter smaller.
C17_CountersCountInvokes ==
  /\ [](/\ AttemptDelta = (IF ReachedCodeGen THEN 1 ELSE 0)
        /\ FailedDelta = (IF ubRet = Returned(Null) THEN 1 ELSE 0)
        /\ NumberOf(spec.mMatched) <= NumberOf(spec.mAttempt)
        /\ ~(AttemptDelta > 0 /\ FailedDelta > 0))
  /\ [][/\ NumberOf(spec.mAttempt') >= NumberOf(spec.mAttempt)
        /\ NumberOf(spec.mFailed') >= NumberOf(spec.mFailed)
        /\ NumberOf(spec.mMatched') >= NumberOf(spec.mMatched)]_vars

SignedInReported == m365Status = [isOk |-> TRUE, status |-> "SignedIn"]

====
